---------------------------- MODULE Spec2Model ----------------------------
(***************************************************************************)
(* A model of neighborhoods_generation.py: the tabular join helper          *)
(* (merge_dataframes), the census query loop, the nearest-point assignment  *)
(* and dissolve stage, and the closing walkability join and derived         *)
(* metrics of the main script.                                              *)
(*                                                                          *)
(* A DataFrame is a record [cols, rows, err]: cols is the sequence of       *)
(* column labels, rows the sequence of rows (each a sequence of cells       *)
(* parallel to cols) and err the name of the exception a pandas call        *)
(* raised ("" when none).  Cells are strings; NaN is pandas' missing value. *)
(***************************************************************************)
EXTENDS Integers, Sequences, FiniteSets, TLC

VARIABLES
    stage,        \* the statement the script has reached (or the exception raised)
    left_df,      \* merge_dataframes: argument left_df
    right_df,     \* merge_dataframes: argument right_df
    merged_df,    \* main: merged_df, assigned when merge_dataframes returns
    county_list,  \* split_counties_and_query_census: argument county_list
    service,      \* what the geography service answers for each county
    county_i,     \* split_counties_and_query_census: position of the for loop
    census_json,  \* split_counties_and_query_census: local census_json
    rtv_rows,     \* the city_ZORI, city_ZHVI and city_RTV columns, row by row
    neighborhood_rtv_gdf,  \* main: the neighborhood records (a GeoDataFrame)
    census_gdf,   \* main: the geographic units (a GeoDataFrame)
    union_gdf,    \* main: the dissolved boundaries (a GeoDataFrame)
    computed,     \* history: the distance and area computations made so far,
                  \* each with the reference system of its operands
    walkscores_csv,  \* the rows of ./csvs/walkscores*.csv, as text
    walkscore_df  \* main: the walkability table read from it

mergeVars == <<left_df, right_df, merged_df>>
censusVars == <<county_list, service, county_i, census_json>>
ratioVars == <<rtv_rows>>
geoVars == <<neighborhood_rtv_gdf, census_gdf, union_gdf, computed>>
walkVars == <<walkscores_csv, walkscore_df>>
vars == <<stage, mergeVars, censusVars, ratioVars, geoVars, walkVars>>

NaN == "NaN"

\* ---------------------------------------------------------------- bounds
MaxLeftRows == 2
MaxRightRows == 2

\* ------------------------------------------------------- frame helpers
Frame(cols, rows) == [cols |-> cols, rows |-> rows, err |-> ""]
Raised(e) == [cols |-> <<>>, rows |-> <<>>, err |-> e]
NoFrame == Raised("unset")

Indices(s) == [i \in 1..Len(s) |-> i]
HasCol(cols, c) == \E i \in 1..Len(cols) : cols[i] = c
ColIdx(cols, c) == CHOOSE i \in 1..Len(cols) :
                       cols[i] = c /\ \A j \in 1..(i - 1) : cols[j] # c
Cell(df, row, c) == row[ColIdx(df.cols, c)]
Pick(s, idxs) == [k \in 1..Len(idxs) |-> s[idxs[k]]]

RECURSIVE Flatten(_)
Flatten(ss) == IF ss = <<>> THEN <<>> ELSE Head(ss) \o Flatten(Tail(ss))

\* ------------------------------------------------------------ pd.merge
\* The key of a row: its cells in the `on` columns.
KeyOf(cols, row, on) == [k \in 1..Len(on) |-> row[ColIdx(cols, on[k])]]

\* pandas drops the right key column when it has the label of the left key
\* it is matched with: the two are coalesced into one column.
RightDrop(left_on, right_on) ==
    {right_on[k] : k \in {j \in 1..Len(right_on) : left_on[j] = right_on[j]}}

\* The dtype read_csv gives a column: float64 or int64 ("number") when every
\* cell is missing or a number, object otherwise (and for a column of no rows).
\* The numbers among the cells of this model are the one-digit texts.
NumberCells == {"0", "1", "2", "3", "4", "5", "6", "7", "8", "9"}
ColumnDtype(df, c) ==
    IF df.rows # <<>> /\ \A r \in 1..Len(df.rows) :
                            Cell(df, df.rows[r], c) \in NumberCells \cup {NaN}
    THEN "number" ELSE "object"

\* pd.merge's check of the key columns (_maybe_coerce_merge_keys): a pair with
\* an empty side is let through; a number column against a column of texts is
\* refused with ValueError.
IncompatibleKeys(left, right, left_on, right_on) ==
    \E k \in 1..Len(left_on) :
        /\ left.rows # <<>> /\ right.rows # <<>>
        /\ ColumnDtype(left, left_on[k]) # ColumnDtype(right, right_on[k])

\* pd.merge(left, right, how='left', left_on=, right_on=, suffixes=)
PdMergeLeft(left, right, left_on, right_on, suffixes) ==
    IF \/ \E k \in 1..Len(left_on) : ~HasCol(left.cols, left_on[k])
       \/ \E k \in 1..Len(right_on) : ~HasCol(right.cols, right_on[k])
    THEN Raised("KeyError")
    ELSE IF IncompatibleKeys(left, right, left_on, right_on)
    THEN Raised("ValueError")
    ELSE
    LET drop == RightDrop(left_on, right_on)
        keepR == SelectSeq(Indices(right.cols), LAMBDA i : right.cols[i] \notin drop)
        rcols == Pick(right.cols, keepR)
        overlap == {c \in {left.cols[i] : i \in 1..Len(left.cols)} : HasCol(rcols, c)}
        lnames == [i \in 1..Len(left.cols) |->
                     IF left.cols[i] \in overlap
                     THEN left.cols[i] \o suffixes[1] ELSE left.cols[i]]
        rnames == [i \in 1..Len(rcols) |->
                     IF rcols[i] \in overlap
                     THEN rcols[i] \o suffixes[2] ELSE rcols[i]]
        missing == [i \in 1..Len(rcols) |-> NaN]
        RowsFor(l) ==
            LET m == SelectSeq(right.rows, LAMBDA r :
                        KeyOf(right.cols, r, right_on) = KeyOf(left.cols, l, left_on))
            IN  IF m = <<>> THEN << l \o missing >>
                ELSE [k \in 1..Len(m) |-> l \o Pick(m[k], keepR)]
    IN  Frame(lnames \o rnames,
              Flatten([i \in 1..Len(left.rows) |-> RowsFor(left.rows[i])]))

\* DataFrame.drop(columns=names)
DropColumns(df, names) ==
    IF df.err # "" THEN df
    ELSE IF \E k \in 1..Len(names) : ~HasCol(df.cols, names[k]) THEN Raised("KeyError")
    ELSE LET gone == {names[k] : k \in 1..Len(names)}
             keep == SelectSeq(Indices(df.cols), LAMBDA i : df.cols[i] \notin gone)
         IN  Frame(Pick(df.cols, keep),
                   [r \in 1..Len(df.rows) |-> Pick(df.rows[r], keep)])

\* DataFrame.rename(columns={df.columns[-1]: new}); columns[-1] of a frame
\* without columns raises IndexError.
RenameLastCol(df, new) ==
    IF df.err # "" \/ new = "" THEN df
    ELSE IF df.cols = <<>> THEN Raised("IndexError")
    ELSE LET last == df.cols[Len(df.cols)]
         IN  Frame([i \in 1..Len(df.cols) |->
                       IF df.cols[i] = last THEN new ELSE df.cols[i]],
                   df.rows)

\* DataFrame.drop_duplicates(subset=[c]): the first row of each value is kept.
DropDuplicates(df, c) ==
    IF df.err # "" THEN df
    ELSE IF ~HasCol(df.cols, c) THEN Raised("KeyError")
    ELSE LET firsts == SelectSeq(Indices(df.rows), LAMBDA i :
                          \A j \in 1..(i - 1) :
                              Cell(df, df.rows[j], c) # Cell(df, df.rows[i], c))
         IN  Frame(df.cols, Pick(df.rows, firsts))

\* merge_dataframes(left_df, right_df, left_on, right_on, suffixes, rename_last_col);
\* rename_last_col = "" stands for None.
merge_dataframes(left, right, left_on, right_on, suffixes, rename_last_col) ==
    LET m1 == PdMergeLeft(left, right, left_on, right_on, suffixes)
        m2 == DropColumns(m1, right_on)
        m3 == RenameLastCol(m2, rename_last_col)
    IN  DropDuplicates(m3, "neighborhood")

\* ------------------------------------------------- the join harness
Suffixes == <<"_left", "_right">>
Neighborhoods == {"A", "B"}
Cities == {"X", "Y"}
Values == {"1", "2"}

SeqsUpTo(S, lo, hi) == UNION {[1..n -> S] : n \in lo..hi}

\* The cells of a key column as read_csv gives them: a city's name, a number
\* or a missing value.
KeyCells == Cities \cup {"1", NaN}

\* neighborhoods_points_df / merged_df: neighborhood and city_name columns.
LeftFrames ==
    {Frame(<<"neighborhood", "city_name">>, rows) :
        rows \in SeqsUpTo({<<n, c>> : n \in Neighborhoods, c \in KeyCells},
                          1, MaxLeftRows)}

\* city_zori_df[['RegionName', last column]]
RightFrames ==
    {Frame(<<"RegionName", "2023-05-31">>, rows) :
        rows \in SeqsUpTo({<<c, v>> : c \in KeyCells, v \in Values}, 0, MaxRightRows)}

IdleMerge == left_df = NoFrame /\ right_df = NoFrame /\ merged_df = NoFrame
IdleCensus == county_list = <<>> /\ service = <<>> /\ county_i = 0 /\ census_json = <<>>
IdleRatio == rtv_rows = <<>>
IdleWalk == walkscores_csv = <<>> /\ walkscore_df = <<>>
IdleGeo == /\ neighborhood_rtv_gdf = <<>> /\ census_gdf = <<>>
           /\ union_gdf = <<>> /\ computed = {}

InitMerge ==
    /\ stage = "merge"
    /\ left_df \in LeftFrames
    /\ right_df = NoFrame
    /\ merged_df = NoFrame
    /\ IdleCensus /\ IdleRatio /\ IdleGeo /\ IdleWalk

\* The call of lines 247-254: the city table joined on city_name = RegionName.
\* When the call raises, merged_df is not assigned and the script stops with
\* the exception.
MergeCity ==
    /\ stage = "merge"
    /\ \E right \in RightFrames :
         LET result == merge_dataframes(left_df, right, <<"city_name">>,
                                        <<"RegionName">>, Suffixes, "city_ZORI")
         IN  /\ right_df' = right
             /\ merged_df' = IF result.err = "" THEN result ELSE merged_df
             /\ stage' = IF result.err = "" THEN "merged" ELSE result.err
    /\ UNCHANGED <<left_df, censusVars, ratioVars, geoVars, walkVars>>

\* A frame joined with itself on its own key column.
MergeSelf ==
    /\ stage = "merge"
    /\ LET result == merge_dataframes(left_df, left_df, <<"neighborhood">>,
                                      <<"neighborhood">>, Suffixes, "")
       IN  /\ right_df' = left_df
           /\ merged_df' = IF result.err = "" THEN result ELSE merged_df
           /\ stage' = IF result.err = "" THEN "self_merged" ELSE result.err
    /\ UNCHANGED <<left_df, censusVars, ratioVars, geoVars, walkVars>>

NextMerge == MergeCity \/ MergeSelf

SpecMerge == InitMerge /\ [][NextMerge]_vars

\* ------------------------------------------------ the census query loop
MaxCounties == 3
MaxFeatures == 2

HTTPError == "HTTPError"
RequestException == "RequestException"
Failures == {HTTPError, RequestException}

\* What requests.get / raise_for_status / response.json() give for a county:
\* a body with `features`, or one of the two exceptions the function catches.
Response(kind, features) == [kind |-> kind, features |-> features]
FeaturesOf(county, n) == [k \in 1..n |-> <<county, k>>]
Responses(county) ==
    {Response("ok", FeaturesOf(county, n)) : n \in 0..MaxFeatures}
        \cup {Response(f, <<>>) : f \in Failures}

\* A Python value that is a dict with `features`, the empty dict {} or None.
Dict(features) == [is |-> "dict", features |-> features]
EmptyDict == [is |-> "empty", features |-> <<>>]
None == [is |-> "None", features |-> <<>>]
Result(value, exc) == [value |-> value, exc |-> exc]

\* x["features"] for a Python value x
Subscript(x) ==
    IF x.is = "dict" THEN Result(x, "")
    ELSE IF x.is = "empty" THEN Result(None, "KeyError")
    ELSE Result(None, "TypeError")

\* query_census_by_geography(county, geography): the try block leaves data = None
\* on either exception, and the print of line 142 subscripts data.
query_census_by_geography(response) ==
    LET data == IF response.kind = "ok" THEN Dict(response.features) ELSE None
    IN  Result(data, Subscript(data).exc)

Counties == {"06037", "06059", "36061"}
CountyLists ==
    {cl \in SeqsUpTo(Counties, 0, MaxCounties) :
        \A i, j \in 1..Len(cl) : i # j => cl[i] # cl[j]}

InitCensus ==
    /\ stage = "census_loop"
    /\ county_list \in CountyLists
    /\ service \in {sv \in SeqsUpTo(UNION {Responses(c) : c \in Counties}, 0, MaxCounties) :
                       /\ Len(sv) = Len(county_list)
                       /\ \A i \in 1..Len(sv) : sv[i] \in Responses(county_list[i])}
    /\ county_i = 1
    /\ census_json = EmptyDict
    /\ IdleMerge /\ IdleRatio /\ IdleGeo /\ IdleWalk

\* One iteration of the for loop of lines 159-165.
QueryCounty ==
    /\ stage = "census_loop"
    /\ county_i <= Len(county_list)
    /\ LET r == query_census_by_geography(service[county_i])
       IN  IF r.exc # ""
           THEN /\ stage' = r.exc
                /\ UNCHANGED census_json
           ELSE /\ stage' = "census_loop"
                /\ census_json' =
                     IF r.value.is = "None" THEN census_json
                     ELSE IF census_json.is = "empty" THEN r.value
                     ELSE Dict(census_json.features \o r.value.features)
    /\ county_i' = county_i + 1
    /\ UNCHANGED <<county_list, service, mergeVars, ratioVars, geoVars, walkVars>>

\* Lines 168-170: the print subscripts census_json, then it is returned.
ReturnCensus ==
    /\ stage = "census_loop"
    /\ county_i > Len(county_list)
    /\ stage' = IF Subscript(census_json).exc # ""
                THEN Subscript(census_json).exc ELSE "census_returned"
    /\ UNCHANGED <<censusVars, mergeVars, ratioVars, geoVars, walkVars>>

NextCensus == QueryCounty \/ ReturnCensus

SpecCensus == InitCensus /\ [][NextCensus]_vars

\* ------------------------------------------------------ float arithmetic
\* A float64 is NaN, +inf, -inf or a fraction num/den in lowest terms, den > 0.
Abs(n) == IF n < 0 THEN -n ELSE n
RECURSIVE GCD(_, _)
GCD(a, b) == IF b = 0 THEN a ELSE GCD(b, a % b)
FNaN == [kind |-> "nan", num |-> 0, den |-> 1]
FInf(sign) == [kind |-> IF sign < 0 THEN "-inf" ELSE "inf", num |-> 0, den |-> 1]
Frac(n, d) ==
    LET g == GCD(Abs(n), Abs(d))
        sgn == IF d < 0 THEN -1 ELSE 1
    IN  [kind |-> "num", num |-> sgn * (n \div g), den |-> sgn * (d \div g)]
Num(n) == [kind |-> "num", num |-> n, den |-> 1]
Sign(a) == IF a.kind = "inf" THEN 1 ELSE IF a.kind = "-inf" THEN -1
           ELSE IF a.num > 0 THEN 1 ELSE IF a.num < 0 THEN -1 ELSE 0
IsInf(a) == a.kind \in {"inf", "-inf"}

\* IEEE division as numpy performs it: x/0 is +-inf, 0/0 and anything with NaN is NaN.
FDiv(a, b) ==
    IF a.kind = "nan" \/ b.kind = "nan" THEN FNaN
    ELSE IF IsInf(a) /\ IsInf(b) THEN FNaN
    ELSE IF IsInf(a) THEN FInf(Sign(a) * (IF Sign(b) < 0 THEN -1 ELSE 1))
    ELSE IF IsInf(b) THEN Num(0)
    ELSE IF b.num = 0 THEN (IF a.num = 0 THEN FNaN ELSE FInf(Sign(a)))
    ELSE Frac(a.num * b.den, a.den * b.num)

FMul(a, b) ==
    IF a.kind = "nan" \/ b.kind = "nan" THEN FNaN
    ELSE IF IsInf(a) \/ IsInf(b)
         THEN (IF Sign(a) * Sign(b) = 0 THEN FNaN ELSE FInf(Sign(a) * Sign(b)))
    ELSE Frac(a.num * b.num, a.den * b.den)

\* ------------------------------------------------------- the ratio column
MaxRatioRows == 2
Hundred == 100

\* Line 274: city_ZORI / city_ZHVI * 100, element by element.
city_RTV(city_ZORI, city_ZHVI) == FMul(FDiv(city_ZORI, city_ZHVI), Num(Hundred))

IndexValues == {FNaN, Num(0), Num(2), Num(3)}

InitRatio ==
    /\ stage = "ratio"
    /\ rtv_rows \in SeqsUpTo([city_ZORI : IndexValues, city_ZHVI : IndexValues],
                             1, MaxRatioRows)
    /\ IdleMerge /\ IdleCensus /\ IdleGeo /\ IdleWalk

ComputeRatio ==
    /\ stage = "ratio"
    /\ rtv_rows' = [i \in 1..Len(rtv_rows) |->
                      [city_ZORI |-> rtv_rows[i].city_ZORI,
                       city_ZHVI |-> rtv_rows[i].city_ZHVI,
                       city_RTV |-> city_RTV(rtv_rows[i].city_ZORI, rtv_rows[i].city_ZHVI)]]
    /\ stage' = "ratio_done"
    /\ UNCHANGED <<mergeVars, censusVars, geoVars, walkVars>>

NextRatio == ComputeRatio

SpecRatio == InitRatio /\ [][NextRatio]_vars

\* ------------------------------------------------------------- geometry
\* A geometry is a set of axis-parallel boxes <<x0, y0, x1, y1>> with integer
\* corners: a Point is one degenerate box, a geographic unit one box, and a
\* dissolved boundary the boxes of its parts.
EPSG4326 == 4326
EPSG3857 == 3857
MercatorScale == 1000

Point(x, y) == {<<x, y, x, y>>}
Box(x0, y0, x1, y1) == {<<x0, y0, x1, y1>>}
ScaleUp(g, k) == {<<b[1] * k, b[2] * k, b[3] * k, b[4] * k>> : b \in g}
ScaleDown(g, k) == {<<b[1] \div k, b[2] \div k, b[3] \div k, b[4] \div k>> : b \in g}

\* GeoDataFrame.to_crs(crs): the rows' geometries transformed, the frame tagged.
\* The projection from degrees to metres is stood for by a scaling of both axes.
to_crs_untransformed(gdf, crs) == gdf

to_crs(gdf, crs) ==
    IF gdf.crs = crs THEN gdf
    ELSE [crs |-> crs,
          rows |-> [i \in 1..Len(gdf.rows) |->
                      [gdf.rows[i] EXCEPT !.geometry =
                          IF crs = EPSG3857
                          THEN ScaleUp(gdf.rows[i].geometry, MercatorScale)
                          ELSE ScaleDown(gdf.rows[i].geometry, MercatorScale)]]]

\* shapely centroid of a unit (one box), in half units: both coordinates doubled.
Centroid2(g) == LET b == CHOOSE b \in g : TRUE IN <<b[1] + b[3], b[2] + b[4]>>

Max(a, b) == IF a > b THEN a ELSE b
Gap(lo, hi, v) == Max(Max(lo - v, v - hi), 0)
\* Squared planar distance, in half units, from the geometry g to the point
\* whose doubled coordinates are p2 (zero when the point lies in g).
Distance2(g, p2) ==
    LET d(b) == Gap(2 * b[1], 2 * b[3], p2[1]) * Gap(2 * b[1], 2 * b[3], p2[1])
                + Gap(2 * b[2], 2 * b[4], p2[2]) * Gap(2 * b[2], 2 * b[4], p2[2])
        best == CHOOSE b \in g : \A c \in g : d(b) <= d(c)
    IN  d(best)

\* GeoSeries.distance(other): one distance per row, in row order.
Distances(gdf, p2) == [i \in 1..Len(gdf.rows) |-> Distance2(gdf.rows[i].geometry, p2)]

\* Series.idxmin(): the label of the first occurrence of the minimum.
idxmin_last(distances) ==
    CHOOSE i \in 1..Len(distances) :
        /\ \A j \in 1..Len(distances) : distances[i] <= distances[j]
        /\ \A j \in (i + 1)..Len(distances) : distances[i] < distances[j]

RECURSIVE ArgMinFrom(_, _, _)
ArgMinFrom(distances, i, best) ==
    IF i > Len(distances) THEN best
    ELSE ArgMinFrom(distances, i + 1,
                    IF distances[i] < distances[best] THEN i ELSE best)

idxmin(distances) == ArgMinFrom(distances, 2, 1)

\* nearest_poly(point, polygons)
nearest_poly(point, polygons) ==
    idxmin(Distances(polygons, Centroid2(point)))

\* rename_nh_id(row, point_gdf): the row with nh_id set.
rename_nh_id_by_label(row, point_gdf) ==
    [row EXCEPT !.nh_id = idxmin(Distances(point_gdf, Centroid2(row.geometry)))]

rename_nh_id(row, point_gdf) ==
    LET distances == Distances(point_gdf, Centroid2(row.geometry))
        nearest_point_idx == idxmin(distances)
    IN  [row EXCEPT !.nh_id = point_gdf.rows[nearest_point_idx].id]

\* The keys of groupby('nh_id'), in ascending order.
RECURSIVE SortedSeq(_)
SortedSeq(S) ==
    IF S = {} THEN <<>>
    ELSE LET m == CHOOSE m \in S : \A n \in S : m <= n
         IN  <<m>> \o SortedSeq(S \ {m})

\* group_and_union(poly_gdf): one row per nh_id, its geometry the union of the
\* group's geometries.  `group` keeps the positions of the rows of the group
\* (the loop variable of line 216); it is not a column of the result.
group_and_union(poly_gdf) ==
    LET names == SortedSeq({poly_gdf.rows[i].nh_id : i \in 1..Len(poly_gdf.rows)})
        GroupOf(name) == {i \in 1..Len(poly_gdf.rows) : poly_gdf.rows[i].nh_id = name}
    IN  [crs |-> poly_gdf.crs,
         rows |-> [k \in 1..Len(names) |->
                     [geometry |-> UNION {poly_gdf.rows[i].geometry : i \in GroupOf(names[k])},
                      nh_id |-> names[k],
                      group |-> GroupOf(names[k])]]]

\* GeoSeries.area: the area covered by the boxes (overlaps counted once),
\* summed over the cells that the boxes' corner coordinates cut the plane into.
After(S, v) == CHOOSE w \in S : w > v /\ \A u \in S : u > v => w <= u

RECURSIVE SumCells(_, _, _)
SumCells(cells, xs, ys) ==
    IF cells = {} THEN 0
    ELSE LET c == CHOOSE c \in cells : TRUE
         IN  (After(xs, c[1]) - c[1]) * (After(ys, c[2]) - c[2])
                 + SumCells(cells \ {c}, xs, ys)

Area(g) ==
    LET xs == {b[1] : b \in g} \cup {b[3] : b \in g}
        ys == {b[2] : b \in g} \cup {b[4] : b \in g}
        cells == {c \in xs \X ys :
                    \E b \in g : b[1] <= c[1] /\ c[1] < b[3] /\ b[2] <= c[2] /\ c[2] < b[4]}
    IN  SumCells(cells, xs, ys)

\* Lines 305-313: the inner join on id = nh_id; the boundary becomes the geometry.
MergeOnId(left, right) ==
    [crs |-> EPSG4326,
     rows |-> Flatten([i \in 1..Len(left.rows) |->
                LET m == SelectSeq(right.rows, LAMBDA r : r.nh_id = left.rows[i].id)
                IN  [k \in 1..Len(m) |->
                       [id |-> left.rows[i].id,
                        neighborhood |-> left.rows[i].neighborhood,
                        geometry |-> m[k].geometry]]])]

\* ------------------------------------------- walkability and metrics
\* A text is a sequence of characters, a character its code point.  A
\* Python value of the population column is NaN, a str, an int, a float or
\* a bool.
PyNaN == [t |-> "nan", s |-> <<>>, n |-> 0, f |-> FNaN]
PyStr(s) == [t |-> "str", s |-> s, n |-> 0, f |-> FNaN]
PyInt(n) == [t |-> "int", s |-> <<>>, n |-> n, f |-> FNaN]
PyFloat(f) == [t |-> "float", s |-> <<>>, n |-> 0, f |-> f]
PyBool(b) == [t |-> "bool", s |-> <<>>, n |-> IF b THEN 1 ELSE 0, f |-> FNaN]

\* The printable ASCII characters in code point order: from the space (32) to
\* the underscore (95), and from a (97) to the tilde (126).
AsciiToUnderscore ==
    <<" ", "!", "\"", "#", "$", "%", "&", "'", "(", ")", "*", "+", ",", "-",
      ".", "/", "0", "1", "2", "3", "4", "5", "6", "7", "8", "9", ":", ";",
      "<", "=", ">", "?", "@", "A", "B", "C", "D", "E", "F", "G", "H", "I",
      "J", "K", "L", "M", "N", "O", "P", "Q", "R", "S", "T", "U", "V", "W",
      "X", "Y", "Z", "[", "\\", "]", "^", "_">>
AsciiFromA ==
    <<"a", "b", "c", "d", "e", "f", "g", "h", "i", "j", "k", "l", "m", "n",
      "o", "p", "q", "r", "s", "t", "u", "v", "w", "x", "y", "z", "{", "|",
      "}", "~">>
\* ord(c) of an ASCII character, and a text written with ASCII characters.
Ord(c) ==
    IF \E i \in 1..Len(AsciiToUnderscore) : AsciiToUnderscore[i] = c
    THEN 31 + (CHOOSE i \in 1..Len(AsciiToUnderscore) : AsciiToUnderscore[i] = c)
    ELSE 96 + (CHOOSE i \in 1..Len(AsciiFromA) : AsciiFromA[i] = c)
Text(chars) == [k \in 1..Len(chars) |-> Ord(chars[k])]

\* The zero of every run of ten Unicode decimal digits: int() reads each.
DecimalZeros ==
    {48, 1632, 1776, 1984, 2406, 2534, 2662, 2790, 2918, 3046, 3174, 3302,
     3430, 3558, 3664, 3792, 3872, 4160, 4240, 6112, 6160, 6470, 6608, 6784,
     6800, 6992, 7088, 7232, 7248, 42528, 43216, 43264, 43472, 43504, 43600,
     44016, 65296, 66720, 68912, 69734, 69872, 69942, 70096, 70384, 70736,
     70864, 71248, 71360, 71472, 71904, 72016, 72784, 73040, 73120, 92768,
     92864, 93008, 120782, 120792, 120802, 120812, 120822, 123200, 123632,
     125264, 130032}
IsDigit(c) == \E z \in DecimalZeros : z <= c /\ c <= z + 9
DigitValue(c) == c - (CHOOSE z \in DecimalZeros : z <= c /\ c <= z + 9)
IsAsciiDigit(c) == Ord("0") <= c /\ c <= Ord("9")
IsAsciiDigits(text) == text # <<>> /\ \A k \in 1..Len(text) : IsAsciiDigit(text[k])

\* The number a text of decimal digits writes.
RECURSIVE ParseInt(_)
ParseInt(text) ==
    IF text = <<>> THEN 0
    ELSE 10 * ParseInt(SubSeq(text, 1, Len(text) - 1)) + DigitValue(text[Len(text)])

\* isspace_ascii of the CSV parser: tab, line feed, vertical tab, form feed,
\* carriage return, space.
CsvWhitespace == (9..13) \cup {Ord(" ")}
\* The white space int() skips: the same, and the Unicode white space beyond
\* ASCII.
PyWhitespace ==
    CsvWhitespace \cup {133, 160, 5760} \cup (8192..8202)
        \cup {8232, 8233, 8239, 8287, 12288}

RECURSIVE LStrip(_, _)
LStrip(text, space) ==
    IF text # <<>> /\ Head(text) \in space THEN LStrip(Tail(text), space) ELSE text
RECURSIVE RStrip(_, _)
RStrip(text, space) ==
    IF text # <<>> /\ text[Len(text)] \in space
    THEN RStrip(SubSeq(text, 1, Len(text) - 1), space) ELSE text
Strip(text, space) == LStrip(RStrip(text, space), space)

HasSign(text) == text # <<>> /\ Head(text) \in {Ord("+"), Ord("-")}
Unsigned(text) == IF HasSign(text) THEN Tail(text) ELSE text
Signed(text, n) == IF HasSign(text) /\ Head(text) = Ord("-") THEN -n ELSE n

\* The CSV parser's integer (str_to_int64): white space, an optional sign,
\* ASCII digits, white space.
IsCsvInt(text) == IsAsciiDigits(Unsigned(Strip(text, CsvWhitespace)))
CsvInt(text) ==
    Signed(Strip(text, CsvWhitespace), ParseInt(Unsigned(Strip(text, CsvWhitespace))))

\* Python's int(str): white space, an optional sign, decimal digits with
\* single underscores between them, white space.
IsIntBody(body) ==
    /\ body # <<>>
    /\ \A k \in 1..Len(body) :
          \/ IsDigit(body[k])
          \/ /\ 1 < k /\ k < Len(body)
             /\ body[k] = Ord("_") /\ IsDigit(body[k - 1]) /\ IsDigit(body[k + 1])
IsPyInt(text) == IsIntBody(Unsigned(Strip(text, PyWhitespace)))
PyIntValue(text) ==
    Signed(Strip(text, PyWhitespace),
           ParseInt(SelectSeq(Unsigned(Strip(text, PyWhitespace)), IsDigit)))

\* strcasecmp: the comparison of two texts without regard to ASCII case.
Lower(c) == IF Ord("A") <= c /\ c <= Ord("Z") THEN c + (Ord("a") - Ord("A")) ELSE c
SameNoCase(text, other) ==
    Len(text) = Len(other) /\ \A k \in 1..Len(text) : Lower(text[k]) = Lower(other[k])

\* The CSV parser's float (xstrtod): white space, an optional sign, digits
\* with an optional decimal point among them (one digit at least), an
\* optional exponent (e or E, an optional sign, one digit at least), white
\* space.  A float is written here as the exact decimal fraction.
RECURSIVE LeadingDigits(_)
LeadingDigits(text) ==
    IF text # <<>> /\ IsAsciiDigit(Head(text))
    THEN <<Head(text)>> \o LeadingDigits(Tail(text)) ELSE <<>>
Drop(text, n) == SubSeq(text, n + 1, Len(text))
FloatParts(text) ==
    LET body == Unsigned(Strip(text, CsvWhitespace))
        int == LeadingDigits(body)
        rest1 == Drop(body, Len(int))
        point == rest1 # <<>> /\ Head(rest1) = Ord(".")
        frac == IF point THEN LeadingDigits(Tail(rest1)) ELSE <<>>
        rest2 == IF point THEN Drop(rest1, 1 + Len(frac)) ELSE rest1
        sci == rest2 # <<>> /\ Head(rest2) \in {Ord("e"), Ord("E")}
        exp == IF sci THEN Tail(rest2) ELSE <<>>
    IN  [digits |-> int \o frac, decimals |-> Len(frac),
         sci |-> sci, exp |-> exp, rest |-> IF sci THEN <<>> ELSE rest2]
IsCsvDecimal(text) ==
    LET p == FloatParts(text)
    IN  /\ p.digits # <<>>
        /\ p.rest = <<>>
        /\ p.sci => IsAsciiDigits(Unsigned(p.exp))
RECURSIVE Pow10(_)
Pow10(n) == IF n = 0 THEN 1 ELSE 10 * Pow10(n - 1)
CsvDecimal(text) ==
    LET p == FloatParts(text)
        m == Signed(Strip(text, CsvWhitespace), ParseInt(p.digits))
        e == (IF p.sci THEN Signed(p.exp, ParseInt(Unsigned(p.exp))) ELSE 0) - p.decimals
    IN  IF e >= 0 THEN Num(m * Pow10(e)) ELSE Frac(m, Pow10(-e))

\* The texts the parser takes for an infinity when xstrtod refuses them.
PosInfTexts == {Text(<<"i", "n", "f">>), Text(<<"+", "i", "n", "f">>),
                Text(<<"i", "n", "f", "i", "n", "i", "t", "y">>),
                Text(<<"+", "i", "n", "f", "i", "n", "i", "t", "y">>)}
NegInfTexts == {Text(<<"-", "i", "n", "f">>),
                Text(<<"-", "i", "n", "f", "i", "n", "i", "t", "y">>)}
IsCsvInf(text, texts) == \E t \in texts : SameNoCase(text, t)
IsCsvFloat(text) ==
    IsCsvDecimal(text) \/ IsCsvInf(text, PosInfTexts) \/ IsCsvInf(text, NegInfTexts)
CsvFloat(text) ==
    IF IsCsvDecimal(text) THEN CsvDecimal(text)
    ELSE IF IsCsvInf(text, PosInfTexts) THEN FInf(1) ELSE FInf(-1)

\* The parser's bool (to_boolean): true or false in any case.
IsCsvTrue(text) == SameNoCase(text, Text(<<"t", "r", "u", "e">>))
IsCsvBool(text) == IsCsvTrue(text) \/ SameNoCase(text, Text(<<"f", "a", "l", "s", "e">>))

\* The texts read_csv takes for a missing value (its default list).
NaStrings ==
    {Text(<<>>), Text(<<"#", "N", "/", "A">>),
     Text(<<"#", "N", "/", "A", " ", "N", "/", "A">>),
     Text(<<"#", "N", "A">>), Text(<<"-", "1", ".", "#", "I", "N", "D">>),
     Text(<<"-", "1", ".", "#", "Q", "N", "A", "N">>),
     Text(<<"-", "N", "a", "N">>), Text(<<"-", "n", "a", "n">>),
     Text(<<"1", ".", "#", "I", "N", "D">>),
     Text(<<"1", ".", "#", "Q", "N", "A", "N">>),
     Text(<<"<", "N", "A", ">">>), Text(<<"N", "/", "A">>),
     Text(<<"N", "A">>), Text(<<"N", "U", "L", "L">>),
     Text(<<"N", "a", "N">>), Text(<<"N", "o", "n", "e">>),
     Text(<<"n", "/", "a">>), Text(<<"n", "a", "n">>),
     Text(<<"n", "u", "l", "l">>)}

\* A value of a column of this dtype: an int of a float64 column is a float.
Upcast(v, dtype) ==
    IF dtype = "float64" /\ v.t = "int" THEN PyFloat(Num(v.n)) ELSE v

\* pd.read_csv on the population column: the cells that are not missing are
\* tried as integers, then as floats, then as bools; a column that is none of
\* these is an object column that keeps its texts.  A column without a
\* present cell is float64, a column of no rows object; an int column with
\* a missing cell is a float64 column, a bool column with a missing cell an
\* object column of bools and NaN.
read_csv(csv) ==
    LET present == {k \in 1..Len(csv) : csv[k].population \notin NaStrings}
        All(Is(_)) == \A k \in present : Is(csv[k].population)
        kind == IF csv = <<>> THEN "str"
                ELSE IF All(IsCsvInt) THEN "int"
                ELSE IF All(IsCsvFloat) THEN "float"
                ELSE IF All(IsCsvBool) THEN "bool"
                ELSE "str"
        complete == Cardinality(present) = Len(csv)
        dtype == IF kind = "int" /\ complete THEN "int64"
                 ELSE IF kind \in {"int", "float"} THEN "float64"
                 ELSE IF kind = "bool" /\ complete THEN "bool"
                 ELSE "object"
    IN  [population_dtype |-> dtype,
         rows |-> [k \in 1..Len(csv) |->
                     [neighborhood |-> csv[k].neighborhood,
                      population |->
                          IF k \notin present THEN PyNaN
                          ELSE IF kind = "int" /\ complete
                          THEN PyInt(CsvInt(csv[k].population))
                          ELSE IF kind = "int"
                          THEN PyFloat(Num(CsvInt(csv[k].population)))
                          ELSE IF kind = "float" THEN PyFloat(CsvFloat(csv[k].population))
                          ELSE IF kind = "bool" THEN PyBool(IsCsvTrue(csv[k].population))
                          ELSE PyStr(csv[k].population)]]]

\* Line 319: merge(walkscore_df, left_on='neighborhood', right_on='neighborhood',
\* how='left'), then the drop and rename of lines 322-325.  With a missing
\* value for an unmatched row, an int64 column becomes a float64 column and
\* a bool column an object column.
MergeWalkscoreLeft(left, right) ==
    LET Matches(i) == SelectSeq(right.rows, LAMBDA r :
                          r.neighborhood = left.rows[i].neighborhood)
        unmatched == \E i \in 1..Len(left.rows) : Matches(i) = <<>>
        dtype == IF ~unmatched THEN right.population_dtype
                 ELSE IF right.population_dtype = "int64" THEN "float64"
                 ELSE IF right.population_dtype = "bool" THEN "object"
                 ELSE right.population_dtype
    IN
    [crs |-> left.crs,
     population_dtype |-> dtype,
     rows |-> Flatten([i \in 1..Len(left.rows) |->
                LET m == Matches(i)
                    Joined(pop) == [id |-> left.rows[i].id,
                                    neighborhood |-> left.rows[i].neighborhood,
                                    geometry |-> left.rows[i].geometry,
                                    population |-> Upcast(pop, dtype)]
                IN  IF m = <<>> THEN << Joined(PyNaN) >>
                    ELSE [k \in 1..Len(m) |-> Joined(m[k].population)]])]

\* Series.str: refused (AttributeError) on a column that is not an object
\* column and on an object column of bools.
StrAccessorRefused(gdf) ==
    \/ gdf.population_dtype # "object"
    \/ \E i \in 1..Len(gdf.rows) : gdf.rows[i].population.t = "bool"

\* str.replace(',', '') on one value of the column
RemoveCommas(text) == SelectSeq(text, LAMBDA c : c # Ord(","))
StrReplace(v) == IF v.t = "str" THEN PyStr(RemoveCommas(v.s)) ELSE PyNaN

\* Line 334: lambda x: int(x) if isinstance(x, str) else x
CanInt(v) == v.t # "str" \/ IsPyInt(v.s)
ToInt(v) == IF v.t = "str" THEN PyInt(PyIntValue(v.s)) ELSE v

AsFloat(v) == IF v.t = "int" THEN Num(v.n)
              ELSE IF v.t = "float" THEN v.f ELSE FNaN

\* Line 337: population / area_sq_mi, element by element
pop_density(population, area_sq_mi) == FDiv(AsFloat(population), area_sq_mi)

\* Line 328: geometry.to_crs(3857).area / 2.59e+6, element by element
SqMetresPerSqMile == 2590000
area_sq_mi(planar_geometry) == FDiv(Num(Area(planar_geometry)), Num(SqMetresPerSqMile))

\* A row with one more column (or a column replaced).
WithColumn(row, c, v) == [f \in DOMAIN row \cup {c} |-> IF f = c THEN v ELSE row[f]]
WithRows(gdf, rows) == [gdf EXCEPT !.rows = rows]

\* ------------------------------------------------ the geometric stage
MaxPoints == 2
MaxUnits == 2
MaxWalkRows == 2
Xs == 0..2
Ys == 0..2
FirstId == 101
Names == <<"A", "B", "C", "D">>
NameOf(id) == Names[id - FirstId + 1]

Intervals(S) == {iv \in S \X S : iv[1] < iv[2]}
UnitBoxes == {<<ix[1], iy[1], ix[2], iy[2]>> : ix \in Intervals(Xs), iy \in Intervals(Ys)}

\* The boxes are listed in one fixed order: a set of units is one frame.
BoxRank(b) == ((b[1] * 10 + b[2]) * 10 + b[3]) * 10 + b[4]

PointRow(id, x, y) ==
    [id |-> id, neighborhood |-> NameOf(id), geometry |-> Point(x, y), nearest_poly |-> 0]

PointFrames ==
    {[crs |-> EPSG4326,
      rows |-> [i \in 1..Len(ps) |->
                  PointRow(IF desc THEN FirstId + Len(ps) - i ELSE FirstId + i - 1,
                           ps[i][1], ps[i][2])]] :
        ps \in SeqsUpTo(Xs \X Ys, 1, MaxPoints), desc \in BOOLEAN}

UnitFrames ==
    {[crs |-> EPSG4326,
      rows |-> [i \in 1..Len(bs) |-> [geometry |-> {bs[i]}, nh_id |-> 0]]] :
        bs \in {s \in SeqsUpTo(UnitBoxes, 1, MaxUnits) :
                  \A i \in 1..(Len(s) - 1) : BoxRank(s[i]) < BoxRank(s[i + 1])}}

NoGdf == [crs |-> 0, rows |-> <<>>]

\* After line 283: the records carry points and the units polygons, in degrees.
\* The walkability file holds its header only.
InitGeo ==
    /\ stage = "from_features"
    /\ neighborhood_rtv_gdf \in PointFrames
    /\ census_gdf \in UnitFrames
    /\ union_gdf = NoGdf
    /\ computed = {}
    /\ walkscores_csv = <<>>
    /\ walkscore_df = <<>>
    /\ IdleMerge /\ IdleCensus /\ IdleRatio

OthersOfGeo == <<mergeVars, censusVars, ratioVars>>

\* Line 286
CensusToCrs ==
    /\ stage = "from_features"
    /\ census_gdf' = to_crs(census_gdf, EPSG3857)
    /\ stage' = "census_planar"
    /\ UNCHANGED <<neighborhood_rtv_gdf, union_gdf, computed, walkVars, OthersOfGeo>>

\* Line 287
NeighborhoodsToCrs ==
    /\ stage = "census_planar"
    /\ neighborhood_rtv_gdf' = to_crs(neighborhood_rtv_gdf, EPSG3857)
    /\ stage' = "planar"
    /\ UNCHANGED <<census_gdf, union_gdf, computed, walkVars, OthersOfGeo>>

Computation(op, line, crs) == [op |-> op, line |-> line, crs |-> crs]

\* Line 290: nearest_poly applied to every record.
ApplyNearestPoly ==
    /\ stage = "planar"
    /\ neighborhood_rtv_gdf' =
         WithRows(neighborhood_rtv_gdf,
                  [i \in 1..Len(neighborhood_rtv_gdf.rows) |->
                      [neighborhood_rtv_gdf.rows[i] EXCEPT !.nearest_poly =
                          nearest_poly(neighborhood_rtv_gdf.rows[i].geometry, census_gdf)]])
    /\ computed' = computed \cup
         {Computation("distance", 184, {neighborhood_rtv_gdf.crs, census_gdf.crs})}
    /\ stage' = "nearest_poly"
    /\ UNCHANGED <<census_gdf, union_gdf, walkVars, OthersOfGeo>>

\* Line 293: rename_nh_id applied to every unit.
ApplyRenameNhId ==
    /\ stage = "nearest_poly"
    /\ census_gdf' =
         WithRows(census_gdf,
                  [i \in 1..Len(census_gdf.rows) |->
                      rename_nh_id(census_gdf.rows[i], neighborhood_rtv_gdf)])
    /\ computed' = computed \cup
         {Computation("distance", 199, {neighborhood_rtv_gdf.crs, census_gdf.crs})}
    /\ stage' = "renamed"
    /\ UNCHANGED <<neighborhood_rtv_gdf, union_gdf, walkVars, OthersOfGeo>>

\* Line 296
GroupAndUnion ==
    /\ stage = "renamed"
    /\ union_gdf' = group_and_union(census_gdf)
    /\ stage' = "dissolved"
    /\ UNCHANGED <<neighborhood_rtv_gdf, census_gdf, computed, walkVars, OthersOfGeo>>

\* Line 299
UnionToCrs ==
    /\ stage = "dissolved"
    /\ union_gdf' = to_crs(union_gdf, EPSG4326)
    /\ stage' = "union_geographic"
    /\ UNCHANGED <<neighborhood_rtv_gdf, census_gdf, computed, walkVars, OthersOfGeo>>

\* Lines 302-313
MergeBoundaries ==
    /\ stage = "union_geographic"
    /\ neighborhood_rtv_gdf' = MergeOnId(neighborhood_rtv_gdf, union_gdf)
    /\ stage' = "joined"
    /\ UNCHANGED <<census_gdf, union_gdf, computed, walkVars, OthersOfGeo>>

\* ---------------------------------------------------- the closing stage
\* Line 316
ReadWalkscore ==
    /\ stage = "joined"
    /\ walkscore_df' = read_csv(walkscores_csv)
    /\ stage' = "walkscore_read"
    /\ UNCHANGED <<geoVars, walkscores_csv, OthersOfGeo>>

\* Lines 319-325
MergeWalkscore ==
    /\ stage = "walkscore_read"
    /\ neighborhood_rtv_gdf' = MergeWalkscoreLeft(neighborhood_rtv_gdf, walkscore_df)
    /\ stage' = "walk_merged"
    /\ UNCHANGED <<census_gdf, union_gdf, computed, walkVars, OthersOfGeo>>

\* Line 328
AreaSqMi ==
    /\ stage = "walk_merged"
    /\ LET planar == to_crs(neighborhood_rtv_gdf, EPSG3857)
       IN  /\ neighborhood_rtv_gdf' =
                WithRows(neighborhood_rtv_gdf,
                         [i \in 1..Len(neighborhood_rtv_gdf.rows) |->
                             WithColumn(neighborhood_rtv_gdf.rows[i], "area_sq_mi",
                                        area_sq_mi(planar.rows[i].geometry))])
           /\ computed' = computed \cup {Computation("area", 328, {planar.crs})}
    /\ stage' = "area"
    /\ UNCHANGED <<census_gdf, union_gdf, walkVars, OthersOfGeo>>

\* Line 331: the .str accessor refuses a column that holds no texts.
StripCommas ==
    /\ stage = "area"
    /\ IF StrAccessorRefused(neighborhood_rtv_gdf)
       THEN /\ stage' = "AttributeError"
            /\ UNCHANGED neighborhood_rtv_gdf
       ELSE /\ stage' = "stripped"
            /\ neighborhood_rtv_gdf' =
                 WithRows(neighborhood_rtv_gdf,
                          [i \in 1..Len(neighborhood_rtv_gdf.rows) |->
                              WithColumn(neighborhood_rtv_gdf.rows[i], "population",
                                  StrReplace(neighborhood_rtv_gdf.rows[i].population))])
    /\ UNCHANGED <<census_gdf, union_gdf, computed, walkVars, OthersOfGeo>>

\* Line 334: int() raises ValueError on a text that is not a number.
\* Series.apply gives an int64 Series when every result is an int and a
\* float64 Series (its ints as floats) when a result is NaN.  The assignment
\* through .loc[:, 'population'] replaces the column, which takes the dtype of
\* the Series, or writes the values into the object column, depending on the
\* pandas version.
PopulationToInt ==
    /\ stage = "stripped"
    /\ LET old == neighborhood_rtv_gdf.rows
           integers == \A i \in 1..Len(old) : old[i].population.t = "str"
       IN  IF \E i \in 1..Len(old) : ~CanInt(old[i].population)
           THEN /\ stage' = "ValueError"
                /\ UNCHANGED neighborhood_rtv_gdf
           ELSE /\ stage' = "population_int"
                /\ \E dtype \in {IF integers THEN "int64" ELSE "float64", "object"} :
                     neighborhood_rtv_gdf' =
                       [neighborhood_rtv_gdf EXCEPT
                          !.population_dtype = dtype,
                          !.rows = [i \in 1..Len(old) |->
                              WithColumn(old[i], "population",
                                  IF integers THEN ToInt(old[i].population)
                                  ELSE Upcast(ToInt(old[i].population), "float64"))]]
    /\ UNCHANGED <<census_gdf, union_gdf, computed, walkVars, OthersOfGeo>>

\* Line 337
PopDensity ==
    /\ stage = "population_int"
    /\ neighborhood_rtv_gdf' =
         WithRows(neighborhood_rtv_gdf,
                  [i \in 1..Len(neighborhood_rtv_gdf.rows) |->
                      WithColumn(neighborhood_rtv_gdf.rows[i], "pop_density",
                          pop_density(neighborhood_rtv_gdf.rows[i].population,
                                      neighborhood_rtv_gdf.rows[i].area_sq_mi))])
    /\ stage' = "density"
    /\ UNCHANGED <<census_gdf, union_gdf, computed, walkVars, OthersOfGeo>>

\* Lines 339-345: the frame is written as CSV and as GeoJSON.
Emit ==
    /\ stage = "density"
    /\ stage' = "emitted"
    /\ UNCHANGED <<geoVars, walkVars, OthersOfGeo>>

NextFinal ==
    \/ ReadWalkscore \/ MergeWalkscore \/ AreaSqMi \/ StripCommas
    \/ PopulationToInt \/ PopDensity \/ Emit

NextGeo ==
    \/ CensusToCrs \/ NeighborhoodsToCrs \/ ApplyNearestPoly \/ ApplyRenameNhId
    \/ GroupAndUnion \/ UnionToCrs \/ MergeBoundaries \/ NextFinal

SpecGeo == InitGeo /\ [][NextGeo]_vars

\* The state after line 313, with any walkability file: the records that
\* found a boundary, each with its boundary, and the boundaries themselves.
PopulationTexts ==
    {<<>>, Text(<<"N", "A">>), Text(<<"7">>),
     Text(<<"1", "2", ",", "3", "4", "5">>), Text(<<"?">>),
     Text(<<"1", ".", "5">>), Text(<<"T", "r", "u", "e">>),
     <<160, Ord("-"), 1633, Ord("_"), Ord("0")>>}
WalkNames == {Names[1], Names[2]}
Widths == {1, 2}
\* The boundary of the record with this id: boundaries do not overlap.
BoundaryOf(id, w) == Box(2 * (id - FirstId), 0, 2 * (id - FirstId) + w, 1)

JoinedFrames ==
    {[crs |-> EPSG4326,
      rows |-> [i \in 1..Len(js) |->
                  [id |-> js[i][1], neighborhood |-> NameOf(js[i][1]),
                   geometry |-> BoundaryOf(js[i][1], js[i][2])]]] :
        js \in {s \in SeqsUpTo((FirstId..(FirstId + MaxPoints - 1)) \X Widths,
                               1, MaxPoints) :
                  \A i \in 1..(Len(s) - 1) : s[i][1] < s[i + 1][1]}}

InitFinal ==
    /\ stage = "joined"
    /\ neighborhood_rtv_gdf \in JoinedFrames
    /\ union_gdf = [crs |-> EPSG4326,
                    rows |-> [i \in 1..Len(neighborhood_rtv_gdf.rows) |->
                                [geometry |-> neighborhood_rtv_gdf.rows[i].geometry,
                                 nh_id |-> neighborhood_rtv_gdf.rows[i].id,
                                 group |-> {i}]]]
    /\ census_gdf = [crs |-> EPSG3857,
                     rows |-> [i \in 1..Len(neighborhood_rtv_gdf.rows) |->
                                 [geometry |-> ScaleUp(neighborhood_rtv_gdf.rows[i].geometry,
                                                       MercatorScale),
                                  nh_id |-> neighborhood_rtv_gdf.rows[i].id]]]
    /\ computed = {Computation("distance", 184, {EPSG3857}),
                   Computation("distance", 199, {EPSG3857})}
    /\ walkscores_csv \in SeqsUpTo([neighborhood : WalkNames, population : PopulationTexts],
                                   0, MaxWalkRows)
    /\ walkscore_df = <<>>
    /\ IdleMerge /\ IdleCensus /\ IdleRatio

SpecFinal == InitFinal /\ [][NextFinal]_vars

\* ================================================================ claims
NoDuplicates(seq) == \A i, j \in 1..Len(seq) : i # j => seq[i] # seq[j]
NeighborhoodsOf(rows) == [i \in 1..Len(rows) |-> rows[i].neighborhood]

\* ---- merge_dataframes (SpecMerge)
\* The value right gives for a city: that of its first row with this
\* RegionName, NaN when it has none.
FirstMatch(right, city) ==
    IF \E k \in 1..Len(right.rows) : right.rows[k][1] = city
    THEN right.rows[CHOOSE k \in 1..Len(right.rows) :
                       /\ right.rows[k][1] = city
                       /\ \A j \in 1..(k - 1) : right.rows[j][1] # city][2]
    ELSE NaN
JoinedTo(left, right, keep) ==
    /\ merged_df.err = ""
    /\ merged_df.cols = <<"neighborhood", "city_name", "city_ZORI">>
    /\ Len(merged_df.rows) = Len(keep)
    /\ \A k \in 1..Len(keep) :
          merged_df.rows[k] =
              left.rows[keep[k]] \o <<FirstMatch(right, left.rows[keep[k]][2])>>

\* The call of lines 247-254 has been made (right_df holds its argument).
CityJoinCalled == right_df \in RightFrames
\* C5: for any left and right, merge_dataframes keeps every row of left, one
\* result row per left row in left order, an unmatched row with missing values
\* and a row with several matches with its first match only, and no
\* neighborhood value twice.  Stated for the left relations whose neighborhood
\* values are distinct, where one row per left row and no neighborhood value
\* twice can both hold.
C5_EveryLeftRowKept ==
    (CityJoinCalled
        /\ NoDuplicates([k \in 1..Len(left_df.rows) |-> left_df.rows[k][1]]))
    => /\ stage = "merged"
       /\ JoinedTo(left_df, right_df, Indices(left_df.rows))
       /\ NoDuplicates([k \in 1..Len(merged_df.rows) |-> merged_df.rows[k][1]])

\* C6: a relation joined with itself on its unique key column neighborhood
\* (left_on = right_on), the duplicated value columns discarded, is the
\* original relation: same columns, same rows.  (right_df = left_df marks
\* the self-join as made.)
C6_SelfJoinIsIdentity ==
    (right_df = left_df
        /\ NoDuplicates([k \in 1..Len(left_df.rows) |-> left_df.rows[k][1]]))
    => /\ stage = "self_merged"
       /\ DropColumns(merged_df, <<"city_name_right">>) =
              Frame(<<"neighborhood", "city_name_left">>, left_df.rows)

\* ---- split_counties_and_query_census (SpecCensus)
Failed(i) == service[i].kind \in Failures
RECURSIVE FeaturesOfOthers(_)
FeaturesOfOthers(i) ==
    IF i > Len(county_list) THEN <<>>
    ELSE (IF Failed(i) THEN <<>> ELSE service[i].features) \o FeaturesOfOthers(i + 1)

\* C3: when the request of one county of the list fails, the function does not
\* abort: it returns the features of the other counties in county-list order,
\* the failed county contributing none.
C3_CountyFailureIsolated ==
    Cardinality({i \in 1..Len(county_list) : Failed(i)}) = 1 =>
        /\ stage \in {"census_loop", "census_returned"}
        /\ stage = "census_returned" => census_json.features = FeaturesOfOthers(1)

\* ---- the ratio column (SpecRatio)
\* C7: a record whose city_ZHVI is zero or missing has a missing city_RTV,
\* whatever its city_ZORI: never infinity, never a number.
C7_RatioMissingWhenValueZero ==
    stage = "ratio_done" =>
        \A i \in 1..Len(rtv_rows) :
            (rtv_rows[i].city_ZHVI.kind = "nan" \/ rtv_rows[i].city_ZHVI = Num(0))
                => rtv_rows[i].city_RTV.kind = "nan"

\* ---- the geometric stage (SpecGeo)
PointIds == {neighborhood_rtv_gdf.rows[k].id : k \in 1..Len(neighborhood_rtv_gdf.rows)}

\* C1: after rename_nh_id on every unit and group_and_union, every unit
\* carries the id of an existing neighborhood point, and the groups that were
\* unioned are pairwise disjoint and together hold every unit, each boundary
\* being the union of exactly the units that carry its nh_id.
C1_UnitsPartitioned ==
    stage = "dissolved" =>
        LET units == 1..Len(census_gdf.rows)
            bounds == 1..Len(union_gdf.rows)
        IN  /\ \A u \in units : census_gdf.rows[u].nh_id \in PointIds
            /\ \A u \in units :
                  Cardinality({b \in bounds : u \in union_gdf.rows[b].group}) = 1
            /\ \A b \in bounds :
                  /\ union_gdf.rows[b].group =
                        {u \in units : census_gdf.rows[u].nh_id = union_gdf.rows[b].nh_id}
                  /\ union_gdf.rows[b].group # {}
                  /\ union_gdf.rows[b].geometry =
                        UNION {census_gdf.rows[u].geometry : u \in union_gdf.rows[b].group}
            /\ \A b, c \in bounds : b # c =>
                  union_gdf.rows[b].group \cap union_gdf.rows[c].group = {}

\* Two units dissolved into two boundaries.
C1_Witness ==
    /\ stage = "dissolved"
    /\ Len(census_gdf.rows) = 2
    /\ Len(union_gdf.rows) = 2

\* The squared planar distance from point k to the centroid of unit u, both
\* doubled: the centroid of a box is the mean of its corners.
CentroidDistance2(u, k) ==
    LET b == CHOOSE b \in census_gdf.rows[u].geometry : TRUE
        p == CHOOSE p \in neighborhood_rtv_gdf.rows[k].geometry : TRUE
        dx == 2 * p[1] - (b[1] + b[3])
        dy == 2 * p[2] - (b[2] + b[4])
    IN  dx * dx + dy * dy

\* C9: rename_nh_id gives a unit the id of a point at minimum planar distance
\* from the unit's centroid, and of the points at that distance the first in
\* the order of the point set.
C9_NearestFirstInOrder ==
    stage = "renamed" =>
        \A u \in 1..Len(census_gdf.rows) :
            \E k \in 1..Len(neighborhood_rtv_gdf.rows) :
                /\ census_gdf.rows[u].nh_id = neighborhood_rtv_gdf.rows[k].id
                /\ \A j \in 1..Len(neighborhood_rtv_gdf.rows) :
                      CentroidDistance2(u, k) <= CentroidDistance2(u, j)
                /\ \A j \in 1..(k - 1) :
                      CentroidDistance2(u, k) < CentroidDistance2(u, j)

\* A unit with two points in different places at the same, minimum distance
\* from its centroid, and the assignment done.
C9_Witness ==
    /\ stage = "renamed"
    /\ Len(neighborhood_rtv_gdf.rows) = 2
    /\ neighborhood_rtv_gdf.rows[1].geometry # neighborhood_rtv_gdf.rows[2].geometry
    /\ \E u \in 1..Len(census_gdf.rows) :
          /\ CentroidDistance2(u, 1) = CentroidDistance2(u, 2)
          /\ census_gdf.rows[u].nh_id = neighborhood_rtv_gdf.rows[1].id

\* C2: at the join of the boundaries onto the records (id = nh_id), a record
\* to which no unit was assigned stops the pipeline with a fatal error: the
\* join is never completed without it.
C2_UnmatchedRecordIsFatal ==
    [][(/\ stage = "union_geographic"
        /\ \E k \in 1..Len(neighborhood_rtv_gdf.rows) :
              \A b \in 1..Len(union_gdf.rows) :
                  union_gdf.rows[b].nh_id # neighborhood_rtv_gdf.rows[k].id)
       => stage' = "UnmatchedBoundary"]_vars

AfterJoin == {"joined", "walkscore_read", "walk_merged", "area", "stripped",
              "population_int", "density", "emitted"}

\* C10: every distance and every area is computed on operands that all carry
\* the planar reference system EPSG:3857; the boundaries are still planar right
\* after the dissolve, and are geographic (EPSG:4326) from the reprojection that
\* follows it on: when they are joined to the records and when they are emitted.
C10_PlanarBeforeMeasuring ==
    /\ \A c \in computed : c.crs = {EPSG3857}
    /\ stage \in {"nearest_poly", "renamed"} =>
          \E c \in computed : c.op = "distance" /\ c.line = 184
    /\ stage \in {"renamed", "dissolved"} =>
          \E c \in computed : c.op = "distance" /\ c.line = 199
    /\ stage \in {"area", "emitted"} => \E c \in computed : c.op = "area"
    /\ stage = "dissolved" => union_gdf.crs = EPSG3857
    /\ stage \in {"union_geographic"} \cup AfterJoin => union_gdf.crs = EPSG4326
    /\ stage \in AfterJoin => neighborhood_rtv_gdf.crs = EPSG4326

\* A run that measured the two distances and the areas and emitted the result.
C10_Witness ==
    /\ stage = "emitted"
    /\ Cardinality(computed) = 3
    /\ Len(neighborhood_rtv_gdf.rows) = 2

\* ---- the closing stage (SpecFinal)
\* C4: whatever the walkability table holds (no rows, several rows for one
\* neighborhood name), the join and the steps up to the output keep exactly one
\* row for each neighborhood that was there before the join.
C4_OneRowPerNeighborhood ==
    [][(stage \in AfterJoin /\ stage' \in AfterJoin)
       => NeighborhoodsOf(neighborhood_rtv_gdf'.rows)
              = NeighborhoodsOf(neighborhood_rtv_gdf.rows)]_vars

\* C8 (a text int() accepts counts as a digit string, and the integer is
\* compared by value, 12345 or 12345.0): population
\* normalization strips the separators and parses a digit string
\* to its integer; a missing, empty or non-numeric population stays missing, is
\* not coerced to zero and does not abort the run; pop_density is missing when
\* population is missing or area_sq_mi is missing or zero.
C8_PopulationNormalized ==
    [][LET old == neighborhood_rtv_gdf.rows
           new == neighborhood_rtv_gdf'.rows
       IN  /\ stage = "area" =>
                 /\ stage' = "stripped"
                 /\ \A i \in 1..Len(old) :
                       new[i].population =
                           IF old[i].population.t = "str"
                           THEN PyStr(RemoveCommas(old[i].population.s)) ELSE PyNaN
           /\ stage = "stripped" =>
                 /\ stage' = "population_int"
                 /\ \A i \in 1..Len(old) :
                       IF old[i].population.t = "str" /\ IsPyInt(old[i].population.s)
                       THEN AsFloat(new[i].population) = Num(PyIntValue(old[i].population.s))
                       ELSE new[i].population = PyNaN
           /\ stage = "population_int" =>
                 \A i \in 1..Len(old) :
                     (\/ old[i].population.t = "nan"
                      \/ old[i].area_sq_mi.kind = "nan"
                      \/ old[i].area_sq_mi = Num(0))
                         => new[i].pop_density.kind = "nan"]_vars

=============================================================================
